---- MODULE Spec2Model ----
(***************************************************************************)
(* Model of the Daubechies wavelet grid construction (DbWaveletGrid) and   *)
(* of the CHAINRULE function (ChainRule::calculate) of plumed2.            *)
(*                                                                         *)
(* Conventions                                                             *)
(*  - std::vector<double> and Matrix<double> are 0-based functions.        *)
(*  - `unsigned` values that can wrap are kept as 32-bit words made of two *)
(*    16-bit halves [hi, lo]; all arithmetic on them is modulo 2^32.       *)
(*  - A double is an exact rational: a numerator and a denominator.  The   *)
(*    denominator is a number hi*2^32 + lo; a zero denominator is the      *)
(*    result of a division by zero (inf or NaN).                           *)
(*  - A binary address (std::string of '0'/'1') is a sequence over {0,1}.  *)
(***************************************************************************)
EXTENDS Integers, Sequences, FiniteSets, TLC

\* ------------------------------------------------------------------ bounds
MaxOrder == 2        \* largest order the coefficient provider supports
MaxGridsize == 10    \* largest requested gridsize
MaxLen == 4          \* longest coefficient sequence handed to setupMatrices
MaxCoeff == 2        \* coefficients handed to setupMatrices are 1..MaxCoeff
NAtoms == 2          \* atoms in the gradient of the CHAINRULE argument
MaxCoord == 1        \* position components are 0..MaxCoord
MaxTimestep == 2     \* the MD timestep is 1..MaxTimestep
MaxShift == 34       \* the sizing loop is followed up to this recursion_number

\* --------------------------------------------------- 32-bit unsigned words
Half == 256 * 256

U32(n) == [hi |-> n \div Half, lo |-> n % Half]

U32Dbl(a) == [hi |-> (2 * a.hi + (2 * a.lo) \div Half) % Half,
              lo |-> (2 * a.lo) % Half]

U32Dec(a) == IF a.lo > 0 THEN [hi |-> a.hi, lo |-> a.lo - 1]
             ELSE [hi |-> (a.hi + Half - 1) % Half, lo |-> Half - 1]

RECURSIVE U32Shl(_, _)
U32Shl(a, r) == IF r = 0 THEN a ELSE U32Shl(U32Dbl(a), r - 1)

U32Less(a, b) == a.hi < b.hi \/ (a.hi = b.hi /\ a.lo < b.lo)

\* value of a word that fits a signed 32-bit integer
ToInt(a) == a.hi * Half + a.lo

RECURSIVE Pow2(_)
Pow2(n) == IF n = 0 THEN 1 ELSE 2 * Pow2(n - 1)

\* ------------------------------------------------------------ wide numbers
\* hi*2^32 + lo with |lo| < 2^31: the doubles that arise from pow(-i, deriv)
\* with i an unsigned int
Wide(h, l) == [hi |-> h, lo |-> l]
WZero == Wide(0, 0)
WAdd(a, b) == Wide(a.hi + b.hi, a.lo + b.lo)
WScale(k, a) == Wide(k * a.hi, k * a.lo)

\* ------------------------------------------------------- vectors, matrices
Size(v) == Cardinality(DOMAIN v)
EmptyVec == [k \in {} |-> 0]
ZeroMatrix(n) == [i \in 0..(n - 1) |-> [j \in 0..(n - 1) |-> 0]]

RECURSIVE Dot(_, _, _)
Dot(row, x, n) == IF n = 0 THEN 0 ELSE Dot(row, x, n - 1) + row[n - 1] * x[n - 1]

\* mult(A, x, y): y = A x, the denominator of x is carried over
mult(A, x) == [num |-> [i \in DOMAIN A |-> Dot(A[i], x.num, Size(x.num))],
               den |-> x.den]

\* M *= 2
Times2(M) == [i \in DOMAIN M |-> [j \in DOMAIN M[i] |-> 2 * M[i][j]]]

\* ------------------------------------------------ binary addresses and maps
EmptyMap == [k \in {} |-> 0]

\* m[k] = v
MapPut(m, k, v) == [x \in (DOMAIN m) \cup {k} |-> IF x = k THEN v ELSE m[x]]

\* m.insert({k, v}): an existing entry is kept
MapInsert(m, k, v) == IF k \in DOMAIN m THEN m ELSE MapPut(m, k, v)

\* std::stoi(key, nullptr, 2)
RECURSIVE stoi2(_)
stoi2(key) == IF Len(key) = 0 THEN 0
              ELSE 2 * stoi2(SubSeq(key, 1, Len(key) - 1)) + key[Len(key)]

\* -------------------------------------------- filter coefficient provider
SupportedOrders == 1..MaxOrder

\* stand-in table: h[k] = k+1, g[k] = (-1)^k h[2*order-1-k]
getFilterCoefficients(o, lowpass) ==
  [k \in 0..(2 * o - 1) |->
     IF lowpass THEN k + 1
     ELSE (IF k % 2 = 0 THEN 1 ELSE -1) * (2 * o - k)]

\* the provider fails with a configuration error for an unsupported order
getFilterCoefficientsThrows(o, lowpass) == o \notin SupportedOrders

\* ---------------------------------------------------------- setupMatrices
\* coeffs[k] as the loop reads it; a read outside the vector is logged by the
\* caller and yields no usable value
ReadCoeff(coeffs, k) == IF k \in DOMAIN coeffs THEN coeffs[k] ELSE 0

M0GuardStrict(shift, N) == 0 <= shift /\ shift < N

M0Guard(shift, N) == 0 <= shift /\ shift <= N
M1Guard(shift, N) == -1 <= shift /\ shift <= N - 1

\* one pass of the inner loop body for cell p = i*N + j
setupMatricesBody(coeffs, N, p, acc) ==
  LET i == p \div N
      j == p % N
      shift == 2 * i - j
      a0 == IF M0Guard(shift, N)
            THEN [acc EXCEPT !.M0[i][j] = 2 * ReadCoeff(coeffs, 2 * i - j),
                             !.reads = @ \cup {2 * i - j}]
            ELSE acc
  IN IF M1Guard(shift, N)
     THEN [a0 EXCEPT !.M1[i][j] = 2 * ReadCoeff(coeffs, 2 * i - j + 1),
                     !.reads = @ \cup {2 * i - j + 1}]
     ELSE a0

RECURSIVE setupMatricesLoop(_, _, _, _)
setupMatricesLoop(coeffs, N, p, acc) ==
  IF N <= 0 \/ p >= N * N THEN acc
  ELSE setupMatricesLoop(coeffs, N, p + 1, setupMatricesBody(coeffs, N, p, acc))

\* N = coeffs.size() - 1 is -1 for an empty vector; resize() zero-fills
setupMatrices(coeffs) ==
  LET N == Size(coeffs) - 1
  IN setupMatricesLoop(coeffs, N, 0,
       [M0 |-> ZeroMatrix(N), M1 |-> ZeroMatrix(N), reads |-> {}])

Matvec(r) == [k \in 0..1 |-> IF k = 0 THEN r.M0 ELSE r.M1]

\* ------------------------------------------------------ calcIntegerValues
\* pow(-i, deriv) with i an unsigned int: -i is 2^32 - i
PowNegI(i, deriv) ==
  IF deriv = 0 THEN Wide(0, 1)
  ELSE IF i = 0 THEN WZero ELSE Wide(1, 0 - i)

RECURSIVE normfactorLoop(_, _, _)
normfactorLoop(values, deriv, n) ==
  IF n <= 1 THEN WZero
  ELSE WAdd(normfactorLoop(values, deriv, n - 1),
            WScale(values[n - 1], PowNegI(n - 1, deriv)))

\* values is what getEigenvector returned; every entry is multiplied by
\* 1/normfactor, whatever normfactor is
calcIntegerValues(values, deriv) ==
  [num |-> values, den |-> normfactorLoop(values, deriv, Size(values))]

\* ---------------------------------------------------------- getEigenvector
\* plumed_lapack_dgesdd is outside the repository.  A decomposition that
\* converged (info = 0) leaves a right singular vector in VT; one that did not
\* (info # 0) leaves VT with no defined content.
Unit(N, k) == [j \in 0..(N - 1) |-> IF j = k THEN 1 ELSE 0]
Ones(N) == [j \in 0..(N - 1) |-> 1]
SvdOutputs(N) ==
  {[eigenvector |-> Ones(N), info |-> 0],
   [eigenvector |-> Unit(N, N - 1), info |-> 0],
   [eigenvector |-> Unit(N, 0), info |-> 1]}

\* ------------------------------------------------------------------ cascade
ScaleAll(Mv) == [k \in DOMAIN Mv |-> Times2(Mv[k])]

\* lines 172-177: the matrices the caller passed are scaled in place
cascadeScaleH(h, derivnum) == IF derivnum # 0 THEN ScaleAll(h) ELSE h
cascadeScaleG(g, derivnum, wavelet) ==
  IF wavelet /\ derivnum # 0 THEN ScaleAll(g) ELSE g

\* lines 180-189
cascadeSeedScaling(h, g, seed, wavelet) ==
  LET s0 == MapPut(EmptyMap, <<0>>, seed)
      s1 == MapPut(s0, <<1>>, mult(h[1], seed))
  IN IF wavelet THEN MapPut(s1, <<1>>, mult(g[1], seed)) ELSE s1

cascadeSeedWavelet(g, seed, wavelet) ==
  IF wavelet THEN MapPut(EmptyMap, <<0>>, mult(g[0], seed)) ELSE EmptyMap

\* lines 196-206 with the new bit appended instead of prepended
cascadeChildAppend(h, g, wavelet, binary, k, st) ==
  LET new_binary == binary \o <<k>>
      sm == MapInsert(st.scaling_map, new_binary, mult(h[k], st.scaling_map[binary]))
      wm == IF wavelet
            THEN MapInsert(st.wavelet_map, new_binary, mult(g[k], sm[binary]))
            ELSE st.wavelet_map
  IN [scaling_map |-> sm, wavelet_map |-> wm,
      new_binary_vec |-> Append(st.new_binary_vec, new_binary)]

\* lines 196-206 for one binary and one k
cascadeChild(h, g, wavelet, binary, k, st) ==
  LET new_binary == <<k>> \o binary
      sm == MapInsert(st.scaling_map, new_binary, mult(h[k], st.scaling_map[binary]))
      wm == IF wavelet
            THEN MapInsert(st.wavelet_map, new_binary, mult(g[k], sm[binary]))
            ELSE st.wavelet_map
  IN [scaling_map |-> sm, wavelet_map |-> wm,
      new_binary_vec |-> Append(st.new_binary_vec, new_binary)]

\* line 193: the condition of the outer loop
cascadeLoopCondLe(n, r) == n <= r

cascadeLoopCond(n, r) == n < r

\* lines 194-208: one iteration of the outer loop
RECURSIVE cascadeLevel(_, _, _, _, _, _)
cascadeLevel(h, g, wavelet, bvec, n, st) ==
  IF n > Len(bvec) THEN st
  ELSE cascadeLevel(h, g, wavelet, bvec, n + 1,
         cascadeChild(h, g, wavelet, bvec[n], 1,
           cascadeChild(h, g, wavelet, bvec[n], 0, st)))

\* --------------------------------------------------------- fillGridFromMaps
\* derivs_map.find(key) returns end() for a key the map does not hold, and
\* line 228 reads through it unchecked.  That read is undefined: it faults, or
\* it yields whatever lies at the address, a finite number or not.
EndDeref ==
  {[fault |-> TRUE, num |-> 0, den |-> WZero],
   [fault |-> FALSE, num |-> 0, den |-> Wide(0, 1)],
   [fault |-> FALSE, num |-> 1, den |-> WZero]}

\* the calls of setValueAndDerivatives made for one key
fillKey(values_map, derivs_map, key, end_read) ==
  LET bpi == Cardinality(DOMAIN values_map)
      decimal == stoi2(key)
      first_grid_element == decimal * (bpi \div Pow2(Len(key)))
  IN {[index |-> first_grid_element + bpi * i,
       key |-> key, i |-> i,
       value |-> [num |-> values_map[key].num[i], den |-> values_map[key].den],
       deriv |-> IF key \in DOMAIN derivs_map
                 THEN [num |-> derivs_map[key].num[i], den |-> derivs_map[key].den]
                 ELSE [num |-> end_read.num, den |-> end_read.den]]
      : i \in DOMAIN values_map[key].num}

\* the loop of line 219 over the keys in keys
fillKeys(values_map, derivs_map, keys, end_read) ==
  UNION {fillKey(values_map, derivs_map, key, end_read) : key \in keys}

fillGridFromMaps(values_map, derivs_map, end_read) ==
  fillKeys(values_map, derivs_map, DOMAIN values_map, end_read)

\* =================================================================== state
VARIABLES
  pc,                  \* position in setupGrid
  order, gridsize, do_wavelet,                 \* parameters of setupGrid
  maxsupport, recursion_number, bins_per_int,  \* locals of setupGrid
  h_coeffs, g_coeffs, h_Matvec, g_Matvec,
  values_at_integers, derivs_at_integers,
  grid, values, derivs,
  derivnum, scaling_map, wavelet_map, binary_vec, i,  \* locals of cascade
  info,                \* status dgesdd stored in the last getEigenvector call
  dgesdd,              \* the decompositions LAPACK has returned, by input
  writes,              \* the calls of Grid::setValueAndDerivatives
  error,               \* the exception that ended the call, if any
  calls,               \* number of setupGrid calls that have returned
  first,               \* arguments and result of the first call
  \* ChainRule (VAR=SPEED)
  cr_first, cr_positions, cr_positionsTmp,   \* members of ChainRule
  cr_value,            \* the value of the action, as setValue left it
  md_positions,        \* getPositions() at the latest calculate call
  gradient,            \* getPntrToArgument(0)->getGradients()
  timestep,            \* atoms.getTimeStep()
  cr_called            \* calculate has been called before

vars == <<pc, order, gridsize, do_wavelet, maxsupport, recursion_number,
          bins_per_int, h_coeffs, g_coeffs, h_Matvec, g_Matvec,
          values_at_integers, derivs_at_integers, grid, values, derivs,
          derivnum, scaling_map, wavelet_map, binary_vec, i, info, dgesdd,
          writes, error, calls, first, cr_first, cr_positions,
          cr_positionsTmp, cr_value, md_positions, gradient, timestep, cr_called>>

chainvars == <<cr_first, cr_positions, cr_positionsTmp, cr_value, md_positions,
               gradient, timestep, cr_called>>
\* what no statement in the body of setupGrid changes
params == <<order, do_wavelet, calls, first, chainvars>>
sizing == <<maxsupport, recursion_number, bins_per_int>>
coeffvars == <<h_coeffs, g_coeffs>>
seeds == <<values_at_integers, derivs_at_integers>>
cascvars == <<derivnum, scaling_map, wavelet_map, binary_vec, i>>
lapack == <<info, dgesdd>>

NoVec == [num |-> EmptyVec, den |-> WZero]
Null == "null"

\* the locals of setupGrid before the call has run any statement
Locals ==
  /\ maxsupport = U32(0) /\ recursion_number = 0 /\ bins_per_int = U32(0)
  /\ h_coeffs = EmptyVec /\ g_coeffs = EmptyVec
  /\ h_Matvec = EmptyVec /\ g_Matvec = EmptyVec
  /\ values_at_integers = NoVec /\ derivs_at_integers = NoVec
  /\ grid = Null /\ values = EmptyMap /\ derivs = EmptyMap
  /\ derivnum = 0 /\ scaling_map = EmptyMap /\ wavelet_map = EmptyMap
  /\ binary_vec = <<>> /\ i = 0
  /\ info = 0 /\ writes = {} /\ error = "none"

NoResult == [grid |-> Null, writes |-> {}, error |-> "none"]
Call(o, n, w) == [order |-> o, request |-> n, do_wavelet |-> w, result |-> NoResult]
NoCall == Call(0, 0, FALSE)

\* ChainRule::ChainRule, l. 113-137: first(true), the vectors empty
Atoms == 0..(NAtoms - 1)
Vectors == [0..2 -> 0..MaxCoord]

ChainRuleConstructed ==
  /\ cr_first = TRUE
  /\ cr_positions = EmptyVec /\ cr_positionsTmp = EmptyVec
  /\ cr_value = [num |-> 0, den |-> 1]
  /\ cr_called = FALSE

ChainRuleUnused ==
  /\ ChainRuleConstructed
  /\ md_positions = EmptyVec /\ gradient = EmptyMap /\ timestep = 1

NoGridCall ==
  /\ pc = "idle"
  /\ order = 0 /\ gridsize = U32(0) /\ do_wavelet = FALSE
  /\ calls = 0 /\ first = NoCall
  /\ dgesdd = EmptyMap
  /\ Locals

Init == NoGridCall /\ ChainRuleUnused

\* ------------------------------------------------------ setupGrid, l. 37-46
\* order*2 - 1 in unsigned arithmetic
MaxSupportOf(o) == U32Dec(U32Dbl(U32(o)))

\* entry of setupGrid(o, n, w): parameters bound, every local fresh
Enter(o, n, w) ==
  /\ order' = o /\ gridsize' = U32(n) /\ do_wavelet' = w
  /\ maxsupport' = MaxSupportOf(o)
  /\ recursion_number' = 0
  /\ bins_per_int' = U32(0)
  /\ h_coeffs' = EmptyVec /\ g_coeffs' = EmptyVec
  /\ h_Matvec' = EmptyVec /\ g_Matvec' = EmptyVec
  /\ values_at_integers' = NoVec /\ derivs_at_integers' = NoVec
  /\ grid' = Null /\ values' = EmptyMap /\ derivs' = EmptyMap
  /\ derivnum' = 0 /\ scaling_map' = EmptyMap /\ wavelet_map' = EmptyMap
  /\ binary_vec' = <<>> /\ i' = 0
  /\ info' = 0 /\ writes' = {} /\ error' = "none"
  /\ pc' = "sizing"
  /\ UNCHANGED <<dgesdd, chainvars>>

setupGrid ==
  /\ pc = "idle"
  /\ \E o \in 0..(MaxOrder + 1), n \in 1..MaxGridsize, w \in BOOLEAN :
       /\ Enter(o, n, w)
       /\ first' = Call(o, n, w)
  /\ UNCHANGED calls

\* width of int and unsigned: 1<<n is defined for n < WordBits only
WordBits == 32

\* the shifts 1<<n can amount to: for n >= WordBits the behaviour is undefined,
\* and a build either uses the low five bits of n or shifts every bit out
ShiftCounts(n) == IF n < WordBits THEN {n} ELSE {n % WordBits, WordBits}

\* the loop condition of line 43
SizingCondLe(ms, r, gs) == ~U32Less(gs, U32Shl(ms, r))

SizingCond(ms, r, gs) == U32Less(U32Shl(ms, r), gs)

SizingStep ==
  /\ pc = "sizing"
  /\ recursion_number < MaxShift
  /\ \E s \in ShiftCounts(recursion_number) : SizingCond(maxsupport, s, gridsize)
  /\ recursion_number' = recursion_number + 1
  /\ UNCHANGED <<pc, params, gridsize, maxsupport, bins_per_int, coeffvars,
                 h_Matvec, g_Matvec, seeds, grid, values, derivs, cascvars,
                 lapack, writes, error>>

SizingDone ==
  /\ pc = "sizing"
  /\ \E s \in ShiftCounts(recursion_number) : ~SizingCond(maxsupport, s, gridsize)
  /\ \E s \in ShiftCounts(recursion_number) :
       /\ bins_per_int' = U32Shl(U32(1), s)
       /\ gridsize' = U32Shl(maxsupport, s)
  /\ pc' = "h_coeffs"
  /\ UNCHANGED <<params, maxsupport, recursion_number, coeffvars, h_Matvec,
                 g_Matvec, seeds, grid, values, derivs, cascvars, lapack,
                 writes, error>>

\* ----------------------------------------------------------- l. 50 and 69
Throw(kind) ==
  /\ pc' = "failed"
  /\ error' = kind
  /\ grid' = Null

GetHCoeffs ==
  /\ pc = "h_coeffs"
  /\ IF getFilterCoefficientsThrows(order, TRUE)
     THEN Throw("ConfigurationError") /\ UNCHANGED h_coeffs
     ELSE /\ h_coeffs' = getFilterCoefficients(order, TRUE)
          /\ pc' = "h_matrices"
          /\ UNCHANGED <<grid, error>>
  /\ UNCHANGED <<params, gridsize, sizing, g_coeffs, h_Matvec, g_Matvec, seeds,
                 values, derivs, cascvars, lapack, writes>>

\* line 52 with matrices kept from the previous call, still scaled by its
\* derivative pass
SetupHMatricesStale ==
  /\ pc = "h_matrices"
  /\ h_Matvec' = IF calls = 0 THEN Matvec(setupMatrices(h_coeffs))
                 ELSE ScaleAll(Matvec(setupMatrices(h_coeffs)))
  /\ pc' = "values"
  /\ UNCHANGED <<params, gridsize, sizing, coeffvars, g_Matvec, seeds, grid,
                 values, derivs, cascvars, lapack, writes, error>>

\* line 52
SetupHMatrices ==
  /\ pc = "h_matrices"
  /\ h_Matvec' = Matvec(setupMatrices(h_coeffs))
  /\ pc' = "values"
  /\ UNCHANGED <<params, gridsize, sizing, coeffvars, g_Matvec, seeds, grid,
                 values, derivs, cascvars, lapack, writes, error>>

\* ------------------------------------- calcIntegerValues, l. 56-57, 106-160
\* getEigenvector: dgesdd is a function of its input
SvdKey(A, deriv) == <<A, deriv>>

CalcIntegerValues(deriv) ==
  LET A == h_Matvec[0]
      key == SvdKey(A, deriv)
  IN \E out \in SvdOutputs(Size(A)) :
       /\ key \in DOMAIN dgesdd => out = dgesdd[key]
       /\ dgesdd' = MapPut(dgesdd, key, out)
       /\ info' = out.info
       /\ IF deriv = 0
          THEN /\ values_at_integers' = calcIntegerValues(out.eigenvector, 0)
               /\ UNCHANGED derivs_at_integers
          ELSE /\ derivs_at_integers' = calcIntegerValues(out.eigenvector, 1)
               /\ UNCHANGED values_at_integers

CalcValues ==
  /\ pc = "values"
  /\ CalcIntegerValues(0)
  /\ pc' = "derivs"
  /\ UNCHANGED <<params, gridsize, sizing, coeffvars, h_Matvec, g_Matvec, grid,
                 values, derivs, cascvars, writes, error>>

CalcDerivs ==
  /\ pc = "derivs"
  /\ CalcIntegerValues(1)
  /\ pc' = "grid"
  /\ UNCHANGED <<params, gridsize, sizing, coeffvars, h_Matvec, g_Matvec, grid,
                 values, derivs, cascvars, writes, error>>

\* ---------------------------------------------------------------- l. 60-75
NewGrid(label) == [label |-> label, min |-> 0, max |-> maxsupport, nbins |-> gridsize]

ResetGridPhi ==
  /\ pc = "grid"
  /\ ~do_wavelet
  /\ grid' = NewGrid("phi")
  /\ pc' = "cascade"
  /\ derivnum' = 0
  /\ UNCHANGED <<params, gridsize, sizing, coeffvars, h_Matvec, g_Matvec, seeds,
                 values, derivs, scaling_map, wavelet_map, binary_vec, i,
                 lapack, writes, error>>

ResetGridPsi ==
  /\ pc = "grid"
  /\ do_wavelet
  /\ IF getFilterCoefficientsThrows(order, FALSE)
     THEN Throw("ConfigurationError") /\ UNCHANGED <<g_coeffs, g_Matvec, derivnum>>
     ELSE /\ g_coeffs' = getFilterCoefficients(order, FALSE)
          /\ g_Matvec' = Matvec(setupMatrices(g_coeffs'))
          /\ grid' = NewGrid("psi")
          /\ pc' = "cascade"
          /\ derivnum' = 0
          /\ UNCHANGED error
  /\ UNCHANGED <<params, gridsize, sizing, h_coeffs, h_Matvec, seeds, values,
                 derivs, scaling_map, wavelet_map, binary_vec, i, lapack,
                 writes>>

\* -------------------------------------------------- cascade, l. 163-212
Seed == IF derivnum = 0 THEN values_at_integers ELSE derivs_at_integers

CascadeSeed ==
  /\ pc = "cascade"
  /\ LET h == cascadeScaleH(h_Matvec, derivnum)
         g == cascadeScaleG(g_Matvec, derivnum, do_wavelet)
     IN /\ h_Matvec' = h
        /\ g_Matvec' = g
        /\ scaling_map' = cascadeSeedScaling(h, g, Seed, do_wavelet)
        /\ wavelet_map' = cascadeSeedWavelet(g, Seed, do_wavelet)
  /\ binary_vec' = << <<1>> >>
  /\ i' = 1
  /\ pc' = "cascade_loop"
  /\ UNCHANGED <<params, gridsize, sizing, coeffvars, seeds, grid, values,
                 derivs, derivnum, lapack, writes, error>>

\* the loop of line 193 with a derivative pass that refines one level further
CascadeLevelDeriv ==
  /\ pc = "cascade_loop"
  /\ cascadeLoopCond(i, recursion_number + derivnum)
  /\ LET st == cascadeLevel(h_Matvec, g_Matvec, do_wavelet, binary_vec, 1,
                  [scaling_map |-> scaling_map, wavelet_map |-> wavelet_map,
                   new_binary_vec |-> <<>>])
     IN /\ scaling_map' = st.scaling_map
        /\ wavelet_map' = st.wavelet_map
        /\ binary_vec' = st.new_binary_vec
  /\ i' = i + 1
  /\ UNCHANGED <<pc, params, gridsize, sizing, coeffvars, h_Matvec, g_Matvec,
                 seeds, grid, values, derivs, derivnum, lapack, writes, error>>

CascadeLevel ==
  /\ pc = "cascade_loop"
  /\ cascadeLoopCond(i, recursion_number)
  /\ LET st == cascadeLevel(h_Matvec, g_Matvec, do_wavelet, binary_vec, 1,
                  [scaling_map |-> scaling_map, wavelet_map |-> wavelet_map,
                   new_binary_vec |-> <<>>])
     IN /\ scaling_map' = st.scaling_map
        /\ wavelet_map' = st.wavelet_map
        /\ binary_vec' = st.new_binary_vec
  /\ i' = i + 1
  /\ UNCHANGED <<pc, params, gridsize, sizing, coeffvars, h_Matvec, g_Matvec,
                 seeds, grid, values, derivs, derivnum, lapack, writes, error>>

\* line 211, and the assignment of line 77 or 78
CascadeReturn ==
  /\ pc = "cascade_loop"
  /\ ~cascadeLoopCond(i, recursion_number)
  /\ LET result == IF do_wavelet THEN wavelet_map ELSE scaling_map
     IN IF derivnum = 0
        THEN /\ values' = result
             /\ derivnum' = 1
             /\ pc' = "cascade"
             /\ UNCHANGED derivs
        ELSE /\ derivs' = result
             /\ pc' = "fill"
             /\ UNCHANGED <<values, derivnum>>
  /\ UNCHANGED <<params, gridsize, sizing, coeffvars, h_Matvec, g_Matvec, seeds,
                 grid, scaling_map, wavelet_map, binary_vec, i, lapack, writes,
                 error>>

\* --------------------------------------------------- l. 80-82 and 216-232
FillGrid ==
  /\ pc = "fill"
  /\ \E end_read \in EndDeref :
       IF end_read.fault /\ ~((DOMAIN values) \subseteq (DOMAIN derivs))
       THEN \* the read faults at the first missing key the iteration meets;
            \* the keys met before it have been written
            /\ \E met \in SUBSET ((DOMAIN values) \cap (DOMAIN derivs)) :
                 writes' = fillKeys(values, derivs, met, end_read)
            /\ Throw("SegmentationFault")
       ELSE /\ writes' = fillGridFromMaps(values, derivs, end_read)
            /\ pc' = "done"
            /\ UNCHANGED <<grid, error>>
  /\ UNCHANGED <<params, gridsize, sizing, coeffvars, h_Matvec, g_Matvec, seeds,
                 values, derivs, cascvars, lapack>>

Next ==
  \/ setupGrid
  \/ SizingStep
  \/ SizingDone
  \/ GetHCoeffs
  \/ SetupHMatrices
  \/ CalcValues
  \/ CalcDerivs
  \/ ResetGridPhi
  \/ ResetGridPsi
  \/ CascadeSeed
  \/ CascadeLevel
  \/ CascadeReturn
  \/ FillGrid

Spec == Init /\ [][Next]_vars
\* --------------------------------------- setupGrid called again by its caller
Finished == pc \in {"done", "failed"}
Result == [grid |-> grid, writes |-> writes, error |-> error]

\* the caller takes the result and calls again: after the first call with any
\* arguments, after the second with those of the first call
CallAgain ==
  /\ Finished
  /\ calls < 2
  /\ calls' = calls + 1
  /\ first' = IF calls = 0 THEN [first EXCEPT !.result = Result] ELSE first
  /\ IF calls = 0
     THEN \E o \in 0..(MaxOrder + 1), n \in 1..MaxGridsize, w \in BOOLEAN :
            Enter(o, n, w)
     ELSE Enter(first.order, first.request, first.do_wavelet)

SpecRepeat == Init /\ [][Next \/ CallAgain]_vars

\* ------------------------------------------- setupMatrices on any sequence
CoeffSeqs == UNION {[0..(n - 1) -> 1..MaxCoeff] : n \in 0..MaxLen}

\* setupGrid stands at line 52 with a coefficient vector of any kind
InitMatrices ==
  /\ pc = "h_matrices"
  /\ order \in SupportedOrders
  /\ maxsupport = MaxSupportOf(order) /\ gridsize = maxsupport
  /\ do_wavelet = FALSE /\ calls = 0 /\ first = NoCall
  /\ recursion_number = 0 /\ bins_per_int = U32(1)
  /\ h_coeffs \in CoeffSeqs
  /\ g_coeffs = EmptyVec /\ h_Matvec = EmptyVec /\ g_Matvec = EmptyVec
  /\ values_at_integers = NoVec /\ derivs_at_integers = NoVec
  /\ grid = Null /\ values = EmptyMap /\ derivs = EmptyMap
  /\ derivnum = 0 /\ scaling_map = EmptyMap /\ wavelet_map = EmptyMap
  /\ binary_vec = <<>> /\ i = 0
  /\ info = 0 /\ writes = {} /\ error = "none"
  /\ dgesdd = EmptyMap
  /\ ChainRuleUnused

SpecMatrices == InitMatrices /\ [][SetupHMatrices]_vars

\* ------------------------------------------ the sizing loop on large requests
\* requests around 2^31 and up to 2^32 - 1
LargeRequests ==
  {[hi |-> h, lo |-> l] : h \in {Half \div 2 - 1, Half \div 2, Half - 1},
                          l \in {0, 1, Half - 1}}

\* setupGrid has been entered and stands before the loop of line 43
InitSizing ==
  /\ pc = "sizing"
  /\ order \in SupportedOrders
  /\ gridsize \in LargeRequests
  /\ do_wavelet = FALSE /\ calls = 0 /\ first = NoCall
  /\ maxsupport = MaxSupportOf(order)
  /\ recursion_number = 0 /\ bins_per_int = U32(0)
  /\ h_coeffs = EmptyVec /\ g_coeffs = EmptyVec
  /\ h_Matvec = EmptyVec /\ g_Matvec = EmptyVec
  /\ values_at_integers = NoVec /\ derivs_at_integers = NoVec
  /\ grid = Null /\ values = EmptyMap /\ derivs = EmptyMap
  /\ derivnum = 0 /\ scaling_map = EmptyMap /\ wavelet_map = EmptyMap
  /\ binary_vec = <<>> /\ i = 0
  /\ info = 0 /\ writes = {} /\ error = "none"
  /\ dgesdd = EmptyMap
  /\ ChainRuleUnused

SpecSizing == InitSizing /\ [][SizingStep \/ SizingDone]_vars

\* ------------------------------------------- fillGridFromMaps on any two maps
FillKeys == {<<0>>, <<1>>}
FillVectors == {[num |-> [k \in 0..0 |-> v], den |-> Wide(0, 1)] : v \in 1..MaxCoeff}
FillMaps == UNION {[K -> FillVectors] : K \in SUBSET FillKeys}

\* fillGridFromMaps is entered with maps of any key sets
InitFill ==
  /\ pc = "fill"
  /\ order = 1 /\ do_wavelet = FALSE /\ calls = 0 /\ first = NoCall
  /\ maxsupport = MaxSupportOf(order)
  /\ recursion_number = 1 /\ bins_per_int = U32(2)
  /\ gridsize = U32(2)
  /\ h_coeffs = EmptyVec /\ g_coeffs = EmptyVec
  /\ h_Matvec = EmptyVec /\ g_Matvec = EmptyVec
  /\ values_at_integers = NoVec /\ derivs_at_integers = NoVec
  /\ grid = NewGrid("phi")
  /\ values \in FillMaps /\ derivs \in FillMaps
  /\ derivnum = 1 /\ scaling_map = EmptyMap /\ wavelet_map = EmptyMap
  /\ binary_vec = <<>> /\ i = 1
  /\ info = 0 /\ writes = {} /\ error = "none"
  /\ dgesdd = EmptyMap
  /\ ChainRuleUnused

SpecFill == InitFill /\ [][FillGrid]_vars

\* ------------------------------------ ChainRule::calculate, VAR=SPEED branch
\* l. 163-171 for one atom of the gradient: st is [result, positions]
calculateAtom(st, iatom, grad, now) ==
  LET positionsTmp == now
      dposition == [j \in 0..2 |-> positionsTmp[iatom][j] - st.positions[iatom][j]]
  IN [result |-> st.result + grad[iatom][0] * dposition[0]
                           + grad[iatom][1] * dposition[1]
                           + grad[iatom][2] * dposition[2],
      positions |-> positionsTmp]

\* the loop of l. 144-173 over the atoms of the gradient, in map order
RECURSIVE calculateLoop(_, _, _, _)
calculateLoop(st, n, grad, now) ==
  IF n = 0 THEN st
  ELSE calculateAtom(calculateLoop(st, n - 1, grad, now), n - 1, grad, now)

calculate ==
  /\ pc = "chainrule"
  /\ \E now \in [Atoms -> Vectors] :
       /\ md_positions' = now
       /\ IF cr_first
          THEN \* l. 154-161: positions stored, return before setValue
               /\ cr_positions' = now
               /\ cr_first' = FALSE
               /\ UNCHANGED <<cr_positionsTmp, cr_value>>
          ELSE LET st == calculateLoop([result |-> 0, positions |-> cr_positions],
                                       NAtoms, gradient, now)
               IN /\ cr_positionsTmp' = now
                  /\ cr_positions' = st.positions
                  /\ cr_value' = [num |-> st.result, den |-> timestep]
                  /\ UNCHANGED cr_first
  /\ cr_called' = TRUE
  /\ UNCHANGED <<pc, order, gridsize, do_wavelet, calls, first, sizing,
                 coeffvars, h_Matvec, g_Matvec, seeds, grid, values, derivs,
                 cascvars, lapack, writes, error, gradient, timestep>>

\* the argument is linear in the positions: its gradient does not change
GradientVectors == {[j \in 0..2 |-> IF j = k THEN 1 ELSE 0] : k \in 0..2}
                     \cup {[j \in 0..2 |-> 1]}

InitChainRule ==
  /\ pc = "chainrule"
  /\ order = 0 /\ gridsize = U32(0) /\ do_wavelet = FALSE
  /\ calls = 0 /\ first = NoCall
  /\ dgesdd = EmptyMap
  /\ Locals
  /\ ChainRuleConstructed
  /\ md_positions = EmptyVec
  /\ gradient \in [Atoms -> GradientVectors]
  /\ timestep \in 1..MaxTimestep

SpecChainRule == InitChainRule /\ [][calculate]_vars

\* ================================================================== claims
Returned == pc = "done"
Computed(seed) == seed.num # EmptyVec
WritesTo(c) == {w \in writes : w.index = c}

\* C1: the cell indices passed to setValueAndDerivatives during one setupGrid
\* call are exactly 0..gridsize-1, each written exactly once, for every
\* order >= 1, every requested gridsize and both values of do_wavelet.
C1_EveryCellWrittenOnce ==
  Returned =>
    /\ \A c \in 0..(ToInt(gridsize) - 1) : Cardinality(WritesTo(c)) = 1
    /\ \A w \in writes : w.index \in 0..(ToInt(gridsize) - 1)

\* C2: on leaving the sizing loop recursion_number is the smallest r with
\* (2*order-1)*2^r >= requested gridsize, bins_per_int is 2^r and gridsize
\* becomes (2*order-1)*2^r, never smaller than the request; order 2 and a
\* request of 10 give 2, 4 and 12.
C2_SizingStep ==
  (pc = "sizing" /\ pc' = "h_coeffs" /\ order >= 1) =>
    LET ms == 2 * order - 1
        req == ToInt(gridsize)
        r == recursion_number'
    IN /\ ms * Pow2(r) >= req
       /\ \A q \in 0..(r - 1) : ms * Pow2(q) < req
       /\ bins_per_int' = U32(Pow2(r))
       /\ gridsize' = U32(ms * Pow2(r))
       /\ ToInt(gridsize') >= req
       /\ (order = 2 /\ req = 10) =>
            (r = 2 /\ ToInt(bins_per_int') = 4 /\ ToInt(gridsize') = 12)

\* C2, as a property of every step that leaves the sizing loop
C2_Sizing == [][C2_SizingStep]_vars

C2_Witness ==
  /\ pc = "h_coeffs" /\ order = 2 /\ recursion_number = 2
  /\ bins_per_int = U32(4) /\ gridsize = U32(12)

\* C3: an unsupported order, or a coefficient sequence that is missing, empty or
\* of odd length, ends setupGrid with a configuration error before any matrix,
\* eigenvector or cascade has been computed, and no Grid is returned.
BadCoeffs(c) == Size(c) = 0 \/ Size(c) % 2 = 1
NumericWork ==
  \/ h_Matvec # EmptyVec \/ g_Matvec # EmptyVec
  \/ Computed(values_at_integers) \/ Computed(derivs_at_integers)
  \/ scaling_map # EmptyMap

C3_ConfigErrorBeforeNumericWork ==
  /\ error = "ConfigurationError" => (~NumericWork /\ grid = Null /\ pc = "failed")
  /\ NumericWork => (order \in SupportedOrders /\ ~BadCoeffs(h_coeffs))
  /\ g_Matvec # EmptyVec => ~BadCoeffs(g_coeffs)

\* C5: for a coefficient sequence h of even length >= 2 setupMatrices returns
\* N x N matrices, N = len(h) - 1, with M0[i][j] = 2*h[2i-j] when 0 <= 2i-j <= N
\* and 0 otherwise, M1[i][j] = 2*h[2i-j+1] when -1 <= 2i-j <= N-1 and 0
\* otherwise, and reads h only inside [0, len(h)).
C5_MatricesFollowShiftRule ==
  (pc = "values" /\ Size(h_coeffs) >= 2 /\ Size(h_coeffs) % 2 = 0) =>
    LET N == Size(h_coeffs) - 1
        M0 == h_Matvec[0]
        M1 == h_Matvec[1]
    IN /\ DOMAIN M0 = 0..(N - 1) /\ DOMAIN M1 = 0..(N - 1)
       /\ \A a \in 0..(N - 1) : DOMAIN M0[a] = 0..(N - 1) /\ DOMAIN M1[a] = 0..(N - 1)
       /\ \A a, b \in 0..(N - 1) :
            /\ M0[a][b] = IF 0 <= 2 * a - b /\ 2 * a - b <= N
                          THEN 2 * h_coeffs[2 * a - b] ELSE 0
            /\ M1[a][b] = IF -1 <= 2 * a - b /\ 2 * a - b <= N - 1
                          THEN 2 * h_coeffs[2 * a - b + 1] ELSE 0
       /\ setupMatrices(h_coeffs).reads \subseteq 0..(Size(h_coeffs) - 1)

C5_Witness ==
  /\ pc = "values" /\ Size(h_coeffs) = 4
  /\ h_coeffs[2] # h_coeffs[3]
  /\ h_Matvec[0][1][0] = 2 * h_coeffs[2]
  /\ h_Matvec[1][2][2] = 2 * h_coeffs[3]
  /\ h_Matvec[0][0][1] = 0

\* C4: calcIntegerValues divides by s, the sum over i = 1..N-1 of
\* v[i] * (-i)^deriv with -i the signed negative integer, so that the
\* normalized vector has moment 1.
RECURSIVE SignedMoment(_, _, _)
SignedMoment(v, deriv, n) ==
  IF n <= 1 THEN 0
  ELSE SignedMoment(v, deriv, n - 1)
       + v[n - 1] * (IF deriv = 0 THEN 1 ELSE 0 - (n - 1))

C4_SignedNormalization ==
  /\ Computed(values_at_integers) =>
       values_at_integers.den =
         Wide(0, SignedMoment(values_at_integers.num, 0, Size(values_at_integers.num)))
  /\ Computed(derivs_at_integers) =>
       derivs_at_integers.den =
         Wide(0, SignedMoment(derivs_at_integers.num, 1, Size(derivs_at_integers.num)))

\* C6: a zero normalization sum ends the build with a numerical error and no
\* Grid; no value divided by zero reaches a seed vector or the grid.
DividedByZero(seed) == Computed(seed) /\ seed.den = WZero

C6_ZeroNormFails ==
  /\ (DividedByZero(values_at_integers) \/ DividedByZero(derivs_at_integers)) =>
       (pc = "failed" /\ error = "NumericalError" /\ grid = Null)
  /\ \A w \in writes : w.value.den # WZero /\ w.deriv.den # WZero

\* C7: when dgesdd reports a non-zero info the build is aborted with a
\* linear-algebra error and nothing is produced from the decomposition.
C7_NonConvergenceFails ==
  info # 0 => (pc = "failed" /\ error = "LinearAlgebraError" /\ grid = Null)

\* C8: a setupGrid call with the arguments of an earlier call returns the
\* same grid, whatever call ran in between.
C8_RepeatedCallSameGrid ==
  (Finished /\ calls = 2) => Result = first.result

C8_Witness ==
  /\ pc = "done" /\ calls = 2 /\ do_wavelet /\ recursion_number = 2
  /\ first.result.writes # {} /\ Result = first.result

\* C9: with VAR=SPEED every calculate call sets the value to the sum over all
\* atoms of the gradient and over j = 0..2 of gradient_j * (position_j now -
\* position_j at the previous call) / timestep; the first call yields 0, and the
\* stored previous positions are those of the previous call for every atom.
RECURSIVE ChainSum(_, _, _, _)
ChainSum(grad, now, before, n) ==
  IF n = 0 THEN 0
  ELSE ChainSum(grad, now, before, n - 1)
       + grad[n - 1][0] * (now[n - 1][0] - before[n - 1][0])
       + grad[n - 1][1] * (now[n - 1][1] - before[n - 1][1])
       + grad[n - 1][2] * (now[n - 1][2] - before[n - 1][2])

C9_Step ==
  pc = "chainrule" =>
    IF ~cr_called THEN cr_value'.num = 0
    ELSE cr_value' = [num |-> ChainSum(gradient, md_positions', md_positions, NAtoms),
                      den |-> timestep]

\* C9, as a property of every calculate call
C9_SpeedSumsAllAtoms == [][C9_Step]_vars

\* C10: the map returned by cascade holds exactly bins_per_int = 2^recursion_number
\* addresses, for every recursion_number >= 0 and both values of do_wavelet.
C10_MapHasBinsPerIntKeys ==
  /\ (pc = "cascade" /\ derivnum = 1) =>
       Cardinality(DOMAIN values) = Pow2(recursion_number)
  /\ pc \in {"fill", "done"} =>
       /\ Cardinality(DOMAIN values) = Pow2(recursion_number)
       /\ Cardinality(DOMAIN derivs) = Pow2(recursion_number)
       /\ Cardinality(DOMAIN values) = ToInt(bins_per_int)

\* C11: every address key of the map returned by cascade has length exactly
\* recursion_number, so that in fillGridFromMaps the shift is 1 and
\* first_grid_element is the decimal value of the key.
FirstGridElement(w) == w.index - Cardinality(DOMAIN values) * w.i

\* C11, with first_grid_element taken from the calls fillGridFromMaps made
C11_KeysHaveLengthRecursionNumber ==
  pc \in {"fill", "done"} =>
    /\ \A key \in (DOMAIN values) \cup (DOMAIN derivs) : Len(key) = recursion_number
    /\ \A w \in writes : FirstGridElement(w) = stoi2(w.key)

\* C11, amended: every address key of the map returned by cascade has a length
\* from 1 to max(recursion_number, 1), shorter keys included, and
\* fillGridFromMaps takes as first_grid_element the decimal value of the key
\* times (number of keys >> length of the key).
C11_KeyLengthsUpToRecursionNumber ==
  pc \in {"fill", "done"} =>
    /\ \A key \in (DOMAIN values) \cup (DOMAIN derivs) :
         /\ 1 <= Len(key)
         /\ Len(key) <= (IF recursion_number > 1 THEN recursion_number ELSE 1)
    /\ \A w \in writes :
         FirstGridElement(w) =
           stoi2(w.key) * (Cardinality(DOMAIN values) \div Pow2(Len(w.key)))

C11_Witness ==
  /\ pc = "done" /\ recursion_number = 2 /\ ~do_wavelet
  /\ <<1>> \in DOMAIN values /\ <<0, 1>> \in DOMAIN values
  /\ \E w \in writes : w.key = <<1>> /\ w.i = 0 /\ w.index = 2

\* C12: for every order, gridsize and do_wavelet the map returned by the
\* derivative cascade has exactly the key set of the map returned by the value
\* cascade, so every derivs_map.find(key) of fillGridFromMaps hits an entry.
C12_SameKeySets ==
  pc \in {"fill", "done"} =>
    /\ DOMAIN derivs = DOMAIN values
    /\ \A w \in writes : w.key \in DOMAIN derivs

C12_Witness ==
  /\ pc = "fill" /\ do_wavelet /\ recursion_number = 2
  /\ DOMAIN values = {<<0>>, <<0, 1>>, <<1, 1>>}
  /\ DOMAIN derivs = DOMAIN values
  /\ values # derivs

\* C13: the scaling-branch map built inside cascade does not depend on
\* do_wavelet: "0" holds the seed, "1" holds M1*seed and every longer address
\* k.a holds M_k times the scaling value at a; no entry comes from G0 or G1.
C13_ScalingBranchIndependentOfWavelet ==
  pc = "cascade_loop" =>
    /\ scaling_map[<<0>>] = Seed
    /\ scaling_map[<<1>>] = mult(h_Matvec[1], Seed)
    /\ \A key \in DOMAIN scaling_map :
         Len(key) > 1 =>
           scaling_map[key] = mult(h_Matvec[key[1]], scaling_map[Tail(key)])

\* C14: in a wavelet pass, at every level l from 1 to recursion_number-1 each
\* existing address a of length l produces both children 0a and 1a, and G0/G1
\* are applied only in the final expansion (l = recursion_number-1); every
\* earlier expansion applies M0/M1 only.
Expansion == pc = "cascade_loop" /\ i' = i + 1 /\ do_wavelet
Range(seq) == {seq[n] : n \in 1..Len(seq)}
Children(a) == {<<k>> \o a : k \in 0..1}

C14_OriginalStep ==
  Expansion =>
    /\ \A a \in DOMAIN scaling_map :
         Len(a) = i =>
           Children(a) \subseteq (DOMAIN scaling_map') \cup (DOMAIN wavelet_map')
    /\ i < recursion_number - 1 => wavelet_map' = wavelet_map
    /\ i = recursion_number - 1 =>
         \A a \in Range(binary_vec), k \in 0..1 :
           wavelet_map'[<<k>> \o a] = mult(g_Matvec[k], scaling_map[a])

\* C14, as a property of every iteration of the cascade loop
C14_WaveletMatricesOnlyInFinalExpansion == [][C14_OriginalStep]_vars

\* C14, amended: in a wavelet pass, at every level l from 1 to
\* recursion_number-1 each address a of length l except "0" produces both
\* children 0a and 1a; every expansion, not only the final one, applies M0/M1
\* to the scaling value at a for the scaling-branch children and G0/G1 to the
\* same value for the wavelet-branch children.
C14_AmendedStep ==
  Expansion =>
    /\ Range(binary_vec) = {a \in DOMAIN scaling_map : Len(a) = i} \ {<<0>>}
    /\ Range(binary_vec') = UNION {Children(a) : a \in Range(binary_vec)}
    /\ \A a \in Range(binary_vec), k \in 0..1 :
         /\ scaling_map'[<<k>> \o a] = mult(h_Matvec[k], scaling_map[a])
         /\ wavelet_map'[<<k>> \o a] = mult(g_Matvec[k], scaling_map[a])
    /\ \A a \in DOMAIN wavelet_map : wavelet_map'[a] = wavelet_map[a]

\* C14, amended, as a property of every iteration of the cascade loop
C14_WaveletMatricesInEveryExpansion == [][C14_AmendedStep]_vars

C14_Witness ==
  /\ pc = "cascade_loop" /\ do_wavelet /\ recursion_number = 3 /\ i = 2
  /\ wavelet_map[<<0, 1>>] = mult(g_Matvec[0], scaling_map[<<1>>])
  /\ scaling_map[<<1, 1>>] = mult(h_Matvec[1], scaling_map[<<1>>])
  /\ <<0, 0>> \notin DOMAIN scaling_map

\* C15: a cascade call with derivnum = 1 leaves the caller's h_Matvec and
\* g_Matvec unchanged; the factor 2 goes to copies that live for that call.
C15_Step ==
  pc = "cascade" => (h_Matvec' = h_Matvec /\ g_Matvec' = g_Matvec)

\* C15, as a property of every step that enters cascade
C15_CascadeLeavesMatricesUnchanged == [][C15_Step]_vars

\* C16: for every order >= 1 and every request that fits 32 bits the sizing
\* loop ends, also when the product wraps: recursion_number never has to pass
\* the 32 doublings after which maxsupport*2^r exceeds every request, the loop
\* is left with maxsupport*bins_per_int >= request, and the cascade loop then
\* runs exactly max(recursion_number-1, 0) iterations.
C16_Step ==
  order >= 1 =>
    /\ pc' = "sizing" => recursion_number' <= WordBits
    /\ (pc = "sizing" /\ pc' = "h_coeffs") =>
         /\ gridsize' = U32Shl(maxsupport, recursion_number)
         /\ ~U32Less(gridsize', gridsize)
    /\ (pc = "cascade_loop" /\ pc' # "cascade_loop") =>
         i - 1 = (IF recursion_number > 1 THEN recursion_number - 1 ELSE 0)

\* C16, as a property of every step of setupGrid
C16_SizingTerminates == [][C16_Step]_vars

\* C17: for a values_map key that derivs_map does not hold fillGridFromMaps
\* stops with a fatal internal-consistency error before it writes a cell of
\* that key; it reads no derivative through the end iterator and returns no
\* partly or wrongly filled grid.
MissingKeys == (DOMAIN values) \ (DOMAIN derivs)

\* C17, on the state in which fillGridFromMaps ends
C17_MissingKeyIsFatal ==
  (pc \in {"done", "failed"} /\ MissingKeys # {}) =>
    /\ pc = "failed" /\ error = "InternalConsistencyError" /\ grid = Null
    /\ \A w \in writes : w.key \notin MissingKeys
====
